---- MODULE Spec2Model ----
(***************************************************************************)
(* Model of src/generate_stats.py: GitHubStatsGenerator.                   *)
(*                                                                         *)
(* make_request is modelled statement by statement (GET, rate-limit test,  *)
(* header parse, sleep, retry, raise_for_status, json, except), the        *)
(* callers (run, get_repositories, get_language_stats) as loops around it, *)
(* and the two computations (calculate_advanced_stats and the percentage   *)
(* part of generate_modern_readme) as operators applied by one action.     *)
(*                                                                         *)
(* The HTTP server and the clock are the environment: every GET draws its  *)
(* outcome from Responses(url, params), every clock read from ClockReads.  *)
(***************************************************************************)
EXTENDS Integers, Sequences, FiniteSets, TLC

VARIABLES
    \* run / get_repositories / get_language_stats
    pc,               \* position of the calling flow
    outcome,          \* what run() returned: "running", "True", "False"
    user,             \* run: user
    repos,            \* get_repositories: repos; afterwards run: repos
    page,             \* get_repositories: page
    page_log,         \* history: one entry per loop iteration of get_repositories
    idx,              \* get_language_stats: position in repos[:30] (1-based)
    languages,        \* get_language_stats: languages (insertion-ordered dict)
    language_repos,   \* get_language_stats: language_repos
    lang_log,         \* history: one entry per language request
    stats,            \* run: stats
    lang_percentages, \* generate_modern_readme: lang_percentages
    top_languages,    \* generate_modern_readme: top_languages
    \* make_request
    mpc,              \* position inside make_request
    url, params,      \* its arguments
    resps,            \* the responses received in this call, in order
    exc,              \* the exception in flight, "" when none
    reset_time,       \* local reset_time
    wait_time,        \* local wait_time
    now,              \* int(time.time()) as read on line 29
    ret,              \* the value returned
    events            \* history: the GETs and sleeps of this call, in order

runVars  == <<pc, outcome, user, repos, page, page_log, idx, languages,
              language_repos, lang_log, stats, lang_percentages, top_languages>>
callVars == <<mpc, url, params, resps, exc, reset_time, wait_time, now, ret, events>>
vars     == <<pc, outcome, user, repos, page, page_log, idx, languages,
              language_repos, lang_log, stats, lang_percentages, top_languages,
              mpc, url, params, resps, exc, reset_time, wait_time, now, ret, events>>

(***************************************************************************)
(* Bounds of the model.                                                    *)
(***************************************************************************)
MaxPages    == 2    \* the server holds at most this many full pages before a short one
TicksPerSec == 2    \* resolution of the float clock: ticks per second
MaxDelay    == 2    \* ticks that may pass between the two clock reads of lines 28-29
Epoch       == 100  \* the second in which the clock is first read
MaxRepos    == 4    \* length of the repository lists given to calculate_advanced_stats
MaxLangs    == 9    \* number of languages in the tallies given to generate_modern_readme
ExtraRepos  == 2    \* repositories beyond the sampled prefix given to get_language_stats

(***************************************************************************)
(* Constants of the program.                                               *)
(***************************************************************************)
PerPage       == 100  \* 'per_page': 100 and len(data) < 100
SampleLimit   == 30   \* repos[:30]
MinWait       == 60   \* max(..., 60)
DefaultReset  == 60   \* time.time() + 60
RateLimitCode == 403  \* response.status_code == 403
ErrorFloor    == 400  \* raise_for_status: 400 <= status < 600 raises
TopCount      == 8    \* [:8]
Percent       == 100  \* bytes_count / total_bytes * 100

(***************************************************************************)
(* Python values.  None, lists and dicts are tagged so that truthiness     *)
(* ("if not data") can be computed the way Python computes it.  A dict of  *)
(* language bytes is its item sequence (dicts keep insertion order).       *)
(***************************************************************************)
None      == [t |-> "None"]
PyList(s) == [t |-> "list", v |-> s]
PyDict(m) == [t |-> "dict", v |-> m]
Truthy(x) == IF x.t = "None" THEN FALSE ELSE DOMAIN x.v # {}

Max2(a, b) == IF a >= b THEN a ELSE b
Min2(a, b) == IF a <= b THEN a ELSE b

RECURSIVE Digits(_)
\* str(n) for n >= 0, as the sequence of its decimal digits
Digits(n) == IF n < 10 THEN <<n>> ELSE Append(Digits(n \div 10), n % 10)

RECURSIVE DigitsValue(_)
DigitsValue(s) ==
    IF s = <<>> THEN 0
    ELSE 10 * DigitsValue(SubSeq(s, 1, Len(s) - 1)) + s[Len(s)]

\* a character of a header: 0..9 stand for the digits, anything else is no digit
IsDigit(c) == c \in 0..9

\* int(str): the value, or ValueError for an empty or non-numeric string
ParseInt(s) ==
    IF s # <<>> /\ \A i \in 1..Len(s) : IsDigit(s[i])
    THEN [ok |-> TRUE, value |-> DigitsValue(s)]
    ELSE [ok |-> FALSE, value |-> 0]

(***************************************************************************)
(* The data the server can hold.                                           *)
(***************************************************************************)
RepoName(g) == "r" \o ToString(g)

Repo(g, isFork, stars) ==
    [name |-> RepoName(g), fork |-> isFork, private |-> (g % 2 = 0),
     stargazers_count |-> stars, forks_count |-> g % 2,
     watchers_count |-> stars, size |-> g]

\* the positions (1-based, over all pages) of the original repositories the
\* server of the full run holds; every other repository is a fork
OriginalAt == {1, SampleLimit, SampleLimit + 1, PerPage + 1}

RepoAt(g) == Repo(g, g \notin OriginalAt, g % 3)

PageBody(p, n) == [i \in 1..n |-> RepoAt((p - 1) * PerPage + i)]

\* lengths a page can have; the cap MaxPages ends the full pages
PageLens(p) == {0, 1, SampleLimit + 1} \cup (IF p <= MaxPages THEN {PerPage} ELSE {})

UserRecord == PyDict([login |-> "octocat", followers |-> 3, following |-> 1])

LangBodies ==
    { PyDict(<<>>),
      PyDict(<<[k |-> "Python", v |-> 3]>>),
      PyDict(<<[k |-> "Go", v |-> 1], [k |-> "Python", v |-> 2]>>) }

UserUrl        == [kind |-> "user", name |-> ""]
ReposUrl       == [kind |-> "repos", name |-> ""]
LanguagesUrl(n) == [kind |-> "languages", name |-> n]

ReposParams(p) ==
    PyDict([type |-> "owner", sort |-> "updated", per_page |-> PerPage, page |-> p])

\* the JSON documents the server can answer a request with
Bodies(u, p) ==
    IF u.kind = "user" THEN {UserRecord}
    ELSE IF u.kind = "repos"
         THEN {PyList(PageBody(p.v.page, n)) : n \in PageLens(p.v.page)}
         ELSE LangBodies

Unparsable == [parsable |-> FALSE, json |-> None]
Json(b)    == [parsable |-> TRUE, json |-> b]

NoHeader   == [present |-> FALSE, chars |-> <<>>]
Header(s)  == [present |-> TRUE, chars |-> s]

\* values of X-RateLimit-Reset: absent, empty, not a number, and timestamps in
\* the past, exactly DefaultReset ahead, and further ahead
Headers ==
    {NoHeader, Header(<<>>), Header(<<1, 10>>)}
    \cup {Header(Digits(Epoch + d)) : d \in {-50, 0, MinWait, MinWait + 1, MinWait + 2}}

Response(s, rl, h, b) ==
    [kind |-> "response", status |-> s, rate_text |-> rl, header |-> h, body |-> b]
TransportError ==
    [kind |-> "error", status |-> 0, rate_text |-> FALSE, header |-> NoHeader,
     body |-> Unparsable]

\* every outcome of session.get(url, params)
Responses(u, p) ==
    {TransportError}
    \cup {Response(s, FALSE, NoHeader, Json(b)) : s \in {200, 300}, b \in Bodies(u, p)}
    \cup {Response(200, TRUE, NoHeader, Json(b)) : b \in Bodies(u, p)}
    \cup {Response(200, FALSE, NoHeader, Unparsable)}
    \cup {Response(RateLimitCode, TRUE, h, Unparsable) : h \in Headers}
    \cup {Response(s, FALSE, NoHeader, Unparsable) : s \in {RateLimitCode, 404, 500}}

\* time.time() in ticks, on line 28
ClockReads == {Epoch * TicksPerSec + k : k \in 0..(TicksPerSec - 1)}

(***************************************************************************)
(* make_request, lines 23-38.                                              *)
(***************************************************************************)
\* line 27: response.status_code == 403 and 'rate limit' in response.text.lower()
IsRateLimited(r) == r.status = RateLimitCode /\ r.rate_text

\* line 28: int(response.headers.get('X-RateLimit-Reset', time.time() + 60));
\* t is time.time() in ticks, int() of a float truncates
ResetTime(h, t) ==
    IF h.present THEN ParseInt(h.chars)
    ELSE [ok |-> TRUE, value |-> (t + DefaultReset * TicksPerSec) \div TicksPerSec]

WaitTimeNoFloor(reset, n) == reset - n
\* line 29: max(reset_time - int(time.time()), 60)
WaitTime(reset, n) == Max2(reset - n, MinWait)

\* line 34: raise_for_status raises HTTPError for 400 <= status < 600
RaisesForStatus(s) == s >= ErrorFloor /\ s < 600

CatchesRequestErrorsOnly(e) == e \in {"ConnectionError", "HTTPError"}
\* line 36: except Exception
Catches(e) == e \in {"ConnectionError", "HTTPError", "JSONDecodeError", "ValueError"}

\* line 27: the first response either enters the rate-limit branch or goes on
\* to line 34
AfterFirst(r) == IF IsRateLimited(r) THEN "wait" ELSE "status"

AfterRetryAgain(r) == IF IsRateLimited(r) THEN "wait" ELSE "status"
\* lines 32-34: the retried response is not tested again
AfterRetry(r) == "status"

GetEvent   == [op |-> "GET", url |-> url, params |-> params, secs |-> 0]
SleepEvent == [op |-> "sleep", url |-> url, params |-> params, secs |-> wait_time]

\* entering make_request(u, p)
BeginCall(u, p) ==
    /\ mpc' = "get"
    /\ url' = u
    /\ params' = p
    /\ resps' = <<>>
    /\ exc' = ""
    /\ reset_time' = 0
    /\ wait_time' = 0
    /\ now' = 0
    /\ ret' = None
    /\ events' = <<>>

\* the caller has taken the returned value: the frame is gone
EndCall ==
    /\ mpc' = "idle"
    /\ url' = UserUrl
    /\ params' = None
    /\ resps' = <<>>
    /\ exc' = ""
    /\ reset_time' = 0
    /\ wait_time' = 0
    /\ now' = 0
    /\ ret' = None
    /\ events' = <<>>

\* lines 26-27
MRGet ==
    /\ mpc = "get"
    /\ \E r \in Responses(url, params) :
        /\ events' = Append(events, GetEvent)
        /\ resps' = Append(resps, r)
        /\ exc' = IF r.kind = "error" THEN "ConnectionError" ELSE ""
        /\ mpc' = IF r.kind = "error" THEN "except" ELSE AfterFirst(r)
    /\ UNCHANGED <<url, params, reset_time, wait_time, now, ret>>
    /\ UNCHANGED runVars

\* lines 28-30
MRWait ==
    /\ mpc = "wait"
    /\ \E t1 \in ClockReads, d \in 0..MaxDelay :
        LET parsed == ResetTime(resps[Len(resps)].header, t1)
            n      == (t1 + d) \div TicksPerSec
        IN  IF parsed.ok
            THEN /\ reset_time' = parsed.value
                 /\ now' = n
                 /\ wait_time' = WaitTime(parsed.value, n)
                 /\ exc' = ""
                 /\ mpc' = "sleep"
            ELSE /\ exc' = "ValueError"
                 /\ mpc' = "except"
                 /\ UNCHANGED <<reset_time, now, wait_time>>
    /\ UNCHANGED <<url, params, resps, ret, events>>
    /\ UNCHANGED runVars

\* line 31
MRSleep ==
    /\ mpc = "sleep"
    /\ events' = Append(events, SleepEvent)
    /\ mpc' = "retry"
    /\ UNCHANGED <<url, params, resps, exc, reset_time, wait_time, now, ret>>
    /\ UNCHANGED runVars

\* line 32
MRRetry ==
    /\ mpc = "retry"
    /\ \E r \in Responses(url, params) :
        /\ events' = Append(events, GetEvent)
        /\ resps' = Append(resps, r)
        /\ exc' = IF r.kind = "error" THEN "ConnectionError" ELSE ""
        /\ mpc' = IF r.kind = "error" THEN "except" ELSE AfterRetry(r)
    /\ UNCHANGED <<url, params, reset_time, wait_time, now, ret>>
    /\ UNCHANGED runVars

\* lines 34-35
MRStatus ==
    /\ mpc = "status"
    /\ LET r == resps[Len(resps)]
       IN  IF RaisesForStatus(r.status)
           THEN exc' = "HTTPError" /\ mpc' = "except" /\ ret' = ret
           ELSE IF ~r.body.parsable
                THEN exc' = "JSONDecodeError" /\ mpc' = "except" /\ ret' = ret
                ELSE exc' = "" /\ mpc' = "returned" /\ ret' = r.body.json
    /\ UNCHANGED <<url, params, resps, reset_time, wait_time, now, events>>
    /\ UNCHANGED runVars

\* lines 36-38
MRExcept ==
    /\ mpc = "except"
    /\ IF Catches(exc)
       THEN mpc' = "returned" /\ ret' = None
       ELSE mpc' = "raised" /\ ret' = ret
    /\ UNCHANGED <<url, params, resps, exc, reset_time, wait_time, now, events>>
    /\ UNCHANGED runVars

MakeRequest == MRGet \/ MRWait \/ MRSleep \/ MRRetry \/ MRStatus \/ MRExcept

(***************************************************************************)
(* get_repositories, lines 45-67.                                          *)
(***************************************************************************)
NextPageStuck(p) == p
\* line 65: page += 1
NextPage(p) == p + 1

IsShortPageOrFull(n) == n <= PerPage
\* line 63: len(data) < 100
IsShortPage(n) == n < PerPage

\* lines 50-58: the request of one loop iteration
ReposCall ==
    /\ pc = "repos"
    /\ mpc = "idle"
    /\ BeginCall(ReposUrl, ReposParams(page))
    /\ pc' = "repos_wait"
    /\ UNCHANGED <<outcome, user, repos, page, page_log, idx, languages,
                   language_repos, lang_log, stats, lang_percentages, top_languages>>

\* lines 58-65: data = make_request(...); break, or extend and go on; the loop's
\* exit is the return of line 67
ReposRet ==
    /\ pc = "repos_wait"
    /\ mpc = "returned"
    /\ LET data == ret
           n    == IF Truthy(data) THEN Len(data.v) ELSE 0
       IN  /\ page_log' = Append(page_log,
                              [page |-> page, ok |-> data # None, n |-> n])
           /\ IF ~Truthy(data)
              THEN /\ pc' = "repos_done"
                   /\ UNCHANGED <<repos, page>>
              ELSE /\ repos' = repos \o data.v
                   /\ IF IsShortPage(n)
                      THEN pc' = "repos_done" /\ page' = page
                      ELSE pc' = "repos" /\ page' = NextPage(page)
    /\ EndCall
    /\ UNCHANGED <<outcome, user, idx, languages, language_repos, lang_log,
                   stats, lang_percentages, top_languages>>

(***************************************************************************)
(* get_language_stats, lines 69-86.                                        *)
(***************************************************************************)
SampleAll(rs) == rs
\* line 74: repos[:30]
Sample(rs) == SubSeq(rs, 1, Min2(Len(rs), SampleLimit))

HasKey(d, k) == \E i \in 1..Len(d) : d[i].k = k
KeyIndex(d, k) == CHOOSE i \in 1..Len(d) : d[i].k = k
\* d.get(k, 0) on an item sequence
BytesOf(d, k) == IF HasKey(d, k) THEN d[KeyIndex(d, k)].v ELSE 0

\* line 83: languages[lang] += bytes_count  (defaultdict(int))
AddBytes(d, k, b) ==
    IF HasKey(d, k)
    THEN [d EXCEPT ![KeyIndex(d, k)].v = @ + b]
    ELSE Append(d, [k |-> k, v |-> b])

\* line 84: language_repos[lang].add(repo['name'])  (defaultdict(set))
AddRepo(d, k, name) ==
    IF HasKey(d, k)
    THEN [d EXCEPT ![KeyIndex(d, k)].v = @ \cup {name}]
    ELSE Append(d, [k |-> k, v |-> {name}])

RECURSIVE MergeBytes(_, _)
\* lines 82-83 over lang_data.items()
MergeBytes(d, items) ==
    IF items = <<>> THEN d
    ELSE MergeBytes(AddBytes(d, items[1].k, items[1].v), Tail(items))

RECURSIVE MergeRepos(_, _, _)
\* lines 82, 84 over lang_data.items()
MergeRepos(d, items, name) ==
    IF items = <<>> THEN d
    ELSE MergeRepos(AddRepo(d, items[1].k, name), Tail(items), name)

\* lines 74-76: a fork in the sampled prefix is passed over
LangSkipFork ==
    /\ pc = "langs"
    /\ idx <= Len(Sample(repos))
    /\ Sample(repos)[idx].fork
    /\ idx' = idx + 1
    /\ UNCHANGED <<pc, outcome, user, repos, page, page_log, languages,
                   language_repos, lang_log, stats, lang_percentages, top_languages>>
    /\ UNCHANGED callVars

\* lines 78-79: the language request of an original repository
LangCall ==
    /\ pc = "langs"
    /\ mpc = "idle"
    /\ idx <= Len(Sample(repos))
    /\ ~Sample(repos)[idx].fork
    /\ BeginCall(LanguagesUrl(Sample(repos)[idx].name), None)
    /\ pc' = "langs_wait"
    /\ UNCHANGED <<outcome, user, repos, page, page_log, idx, languages,
                   language_repos, lang_log, stats, lang_percentages, top_languages>>

\* lines 79-84
LangRet ==
    /\ pc = "langs_wait"
    /\ mpc = "returned"
    /\ LET name == Sample(repos)[idx].name
       IN  /\ lang_log' = Append(lang_log, [i |-> idx, name |-> url.name, data |-> ret])
           /\ IF Truthy(ret)
              THEN /\ languages' = MergeBytes(languages, ret.v)
                   /\ language_repos' = MergeRepos(language_repos, ret.v, name)
              ELSE UNCHANGED <<languages, language_repos>>
    /\ idx' = idx + 1
    /\ pc' = "langs"
    /\ EndCall
    /\ UNCHANGED <<outcome, user, repos, page, page_log, stats,
                   lang_percentages, top_languages>>

\* line 86: the prefix is exhausted, the tallies are returned
LangDone ==
    /\ pc = "langs"
    /\ idx > Len(Sample(repos))
    /\ pc' = "stats"
    /\ UNCHANGED <<outcome, user, repos, page, page_log, idx, languages,
                   language_repos, lang_log, stats, lang_percentages, top_languages>>
    /\ UNCHANGED callVars

(***************************************************************************)
(* calculate_advanced_stats, lines 108-133.  A float is kept as the exact  *)
(* fraction num/den it was computed from; a division by zero is the        *)
(* ZeroDivisionError Python raises.                                        *)
(***************************************************************************)
RECURSIVE SumRange(_, _, _)
\* s[lo] + ... + s[hi], added up by halves to keep the evaluation shallow
SumRange(s, lo, hi) ==
    IF lo > hi THEN 0
    ELSE IF lo = hi THEN s[lo]
    ELSE LET mid == (lo + hi) \div 2
         IN  SumRange(s, lo, mid) + SumRange(s, mid + 1, hi)

\* sum(...)
SumSeq(s) == SumRange(s, 1, Len(s))

\* len([r for r in repos if P(r)])
CountOriginal(rs) == Cardinality({i \in 1..Len(rs) : ~rs[i].fork})
CountForked(rs)   == Cardinality({i \in 1..Len(rs) : rs[i].fork})
CountPublic(rs)   == Cardinality({i \in 1..Len(rs) : ~rs[i].private})

\* a / b
TrueDiv(a, b) ==
    IF b = 0 THEN [ok |-> FALSE, num |-> a, den |-> b]
    ELSE [ok |-> TRUE, num |-> a, den |-> b]

AvgDenominatorUnguarded(n) == n
\* line 128: max(len(original_repos), 1)
AvgDenominator(n) == Max2(n, 1)

ReplacesOnTie(candidate, best) == candidate >= best
\* max(iterable, key=...): a later element replaces the best only when its key
\* is strictly greater
Replaces(candidate, best) == candidate > best

RECURSIVE MaxFrom(_, _, _)
\* the index max() ends with after scanning rs[lo..hi] from the left: the best of
\* the left half is replaced by the best of the right half only when the latter
\* replaces it (the scan, evaluated by halves to keep the evaluation shallow)
MaxFrom(rs, lo, hi) ==
    IF lo = hi THEN lo
    ELSE LET mid   == (lo + hi) \div 2
             left  == MaxFrom(rs, lo, mid)
             right == MaxFrom(rs, mid + 1, hi)
         IN  IF Replaces(rs[right].stargazers_count, rs[left].stargazers_count)
             THEN right ELSE left

\* lines 129-130: max(repos, key=lambda x: x['stargazers_count']), as the index
\* of the element returned (repos is not empty)
MostStarredIndex(rs) == MaxFrom(rs, 1, Len(rs))

NoStats == [ok |-> FALSE, error |-> "unset"]

calculate_advanced_stats(u, rs) ==
    LET total_stars == SumSeq([i \in 1..Len(rs) |-> rs[i].stargazers_count])
        avg         == TrueDiv(total_stars, AvgDenominator(CountOriginal(rs)))
    IN  IF ~avg.ok THEN [ok |-> FALSE, error |-> "ZeroDivisionError"]
        ELSE [ok |-> TRUE,
              total_repos        |-> Len(rs),
              public_repos       |-> CountPublic(rs),
              total_stars        |-> total_stars,
              total_forks        |-> SumSeq([i \in 1..Len(rs) |-> rs[i].forks_count]),
              total_watchers     |-> SumSeq([i \in 1..Len(rs) |-> rs[i].watchers_count]),
              total_size         |-> SumSeq([i \in 1..Len(rs) |-> rs[i].size]),
              followers          |-> u.v.followers,
              following          |-> u.v.following,
              original_repos     |-> CountOriginal(rs),
              forked_repos       |-> CountForked(rs),
              avg_stars_per_repo |-> [num |-> avg.num, den |-> avg.den],
              most_starred_repo  |-> IF rs # <<>> THEN rs[MostStarredIndex(rs)].name
                                     ELSE "None",
              most_starred_stars |-> IF rs # <<>>
                                     THEN rs[MostStarredIndex(rs)].stargazers_count
                                     ELSE 0]

\* run, lines 318-320
CalculateAdvancedStats ==
    /\ pc = "stats"
    /\ stats' = calculate_advanced_stats(user, repos)
    /\ pc' = IF stats'.ok THEN "readme" ELSE "crashed"
    /\ UNCHANGED <<outcome, user, repos, page, page_log, idx, languages,
                   language_repos, lang_log, lang_percentages, top_languages>>
    /\ UNCHANGED callVars

(***************************************************************************)
(* generate_modern_readme, lines 138-145: the language percentages.  The   *)
(* template of lines 159-274 is text and is not modelled.                  *)
(***************************************************************************)
PercentageAsFraction(b, total) == [num |-> b, den |-> total]
\* line 141: bytes_count / total_bytes * 100
Percentage(b, total) == [num |-> b * Percent, den |-> total]

\* comparison of two floats kept as fractions with positive denominators
FracLess(a, b) == a.num * b.den < b.num * a.den

\* lines 139-143
LangPercentages(langs) ==
    LET total_bytes == SumSeq([i \in 1..Len(langs) |-> langs[i].v])
    IN  IF total_bytes > 0
        THEN [i \in 1..Len(langs) |->
                 [k |-> langs[i].k, pct |-> Percentage(langs[i].v, total_bytes)]]
        ELSE <<>>

RECURSIVE InsertDesc(_, _)
\* x goes behind every element that is not smaller: equal elements keep their order
InsertDesc(sorted, x) ==
    IF sorted = <<>> THEN <<x>>
    ELSE IF FracLess(sorted[1].pct, x.pct)
         THEN <<x>> \o sorted
         ELSE <<sorted[1]>> \o InsertDesc(Tail(sorted), x)

RECURSIVE SortedDesc(_)
\* sorted(items, key=lambda x: x[1], reverse=True): stable
SortedDesc(items) ==
    IF items = <<>> THEN <<>>
    ELSE InsertDesc(SortedDesc(SubSeq(items, 1, Len(items) - 1)), items[Len(items)])

\* line 145: [:8]
TopLanguages(pcts) ==
    LET s == SortedDesc(pcts) IN SubSeq(s, 1, Min2(Len(s), TopCount))

\* run, lines 322-337: the README is generated and written, run returns True
GenerateReadme ==
    /\ pc = "readme"
    /\ lang_percentages' = LangPercentages(languages)
    /\ top_languages' = TopLanguages(lang_percentages')
    /\ outcome' = "True"
    /\ pc' = "done"
    /\ UNCHANGED <<user, repos, page, page_log, idx, languages, language_repos,
                   lang_log, stats>>
    /\ UNCHANGED callVars

(***************************************************************************)
(* run, lines 294-337.                                                     *)
(***************************************************************************)
\* lines 300, 40-43: get_user_info
RunGetUser ==
    /\ pc = "start"
    /\ mpc = "idle"
    /\ BeginCall(UserUrl, None)
    /\ pc' = "user_wait"
    /\ UNCHANGED <<outcome, user, repos, page, page_log, idx, languages,
                   language_repos, lang_log, stats, lang_percentages, top_languages>>

\* lines 300-303, then 307 and 47-48: get_repositories is entered
RunUserRet ==
    /\ pc = "user_wait"
    /\ mpc = "returned"
    /\ user' = ret
    /\ IF ~Truthy(ret)
       THEN outcome' = "False" /\ pc' = "done"
       ELSE outcome' = outcome /\ pc' = "repos"
    /\ EndCall
    /\ UNCHANGED <<repos, page, page_log, idx, languages, language_repos,
                   lang_log, stats, lang_percentages, top_languages>>

\* lines 307-316, then 71-72: get_language_stats is entered
RunReposCheck ==
    /\ pc = "repos_done"
    /\ IF repos = <<>>
       THEN outcome' = "False" /\ pc' = "done"
       ELSE outcome' = outcome /\ pc' = "langs"
    /\ UNCHANGED <<user, repos, page, page_log, idx, languages, language_repos,
                   lang_log, stats, lang_percentages, top_languages>>
    /\ UNCHANGED callVars

(***************************************************************************)
(* Specifications.                                                         *)
(***************************************************************************)
IdleCall ==
    /\ mpc = "idle"
    /\ url = UserUrl
    /\ params = None
    /\ resps = <<>>
    /\ exc = ""
    /\ reset_time = 0
    /\ wait_time = 0
    /\ now = 0
    /\ ret = None
    /\ events = <<>>

FreshRun ==
    /\ outcome = "running"
    /\ page = 1
    /\ page_log = <<>>
    /\ idx = 1
    /\ languages = <<>>
    /\ language_repos = <<>>
    /\ lang_log = <<>>
    /\ stats = NoStats
    /\ lang_percentages = <<>>
    /\ top_languages = <<>>

\* the generator after construction, run() about to start
Init ==
    /\ pc = "start"
    /\ user = None
    /\ repos = <<>>
    /\ FreshRun
    /\ IdleCall

Next ==
    \/ MakeRequest
    \/ RunGetUser \/ RunUserRet
    \/ ReposCall \/ ReposRet \/ RunReposCheck
    \/ LangSkipFork \/ LangCall \/ LangRet \/ LangDone
    \/ CalculateAdvancedStats
    \/ GenerateReadme

Spec == Init /\ [][Next]_vars

\* get_language_stats(repos) alone, on repository lists around the sample limit
LangLengths ==
    {0, 1, SampleLimit - 1, SampleLimit} \cup {SampleLimit + k : k \in 1..ExtraRepos}
LangOriginalCandidates == {1, 2, SampleLimit, SampleLimit + 1}

InitLang ==
    /\ pc = "langs"
    /\ user = UserRecord
    /\ \E n \in LangLengths, orig \in SUBSET LangOriginalCandidates :
          repos = [i \in 1..n |-> Repo(i, i \notin orig, i % 3)]
    /\ FreshRun
    /\ IdleCall

NextLang == MakeRequest \/ LangSkipFork \/ LangCall \/ LangRet \/ LangDone

SpecLang == InitLang /\ [][NextLang]_vars

\* calculate_advanced_stats(user, repos) alone, on every short repository list
StarValues == {0, 5, 12}

RepoLists ==
    UNION { [1..n -> BOOLEAN \X StarValues] : n \in 0..MaxRepos }

InitStats ==
    /\ pc = "stats"
    /\ user = UserRecord
    /\ \E l \in RepoLists : repos = [i \in 1..Len(l) |-> Repo(i, l[i][1], l[i][2])]
    /\ FreshRun
    /\ IdleCall

NextStats == CalculateAdvancedStats

SpecStats == InitStats /\ [][NextStats]_vars

\* the percentage derivation alone, on every short tally
ByteValues == {0, 1, 2}
LangName(i) == "L" \o ToString(i)

Tallies ==
    UNION { [1..n -> ByteValues] : n \in 0..MaxLangs }

InitPct ==
    /\ pc = "readme"
    /\ user = UserRecord
    /\ repos = <<>>
    /\ outcome = "running"
    /\ page = 1
    /\ page_log = <<>>
    /\ idx = 1
    /\ \E b \in Tallies : languages = [i \in 1..Len(b) |-> [k |-> LangName(i), v |-> b[i]]]
    /\ language_repos = <<>>
    /\ lang_log = <<>>
    /\ stats = NoStats
    /\ lang_percentages = <<>>
    /\ top_languages = <<>>
    /\ IdleCall

NextPct == GenerateReadme

SpecPct == InitPct /\ [][NextPct]_vars

(***************************************************************************)
(* Properties.                                                             *)
(***************************************************************************)
FirstResponse == resps[1]
FinalResponse == resps[Len(resps)]
Ops           == [i \in 1..Len(events) |-> events[i].op]
NumGets       == Cardinality({i \in 1..Len(events) : events[i].op = "GET"})
NumSleeps     == Cardinality({i \in 1..Len(events) : events[i].op = "sleep"})
HeaderParses(r) == ~r.header.present \/ ParseInt(r.header.chars).ok

\* C1 (as amended): make_request never raises past its boundary.  A transport
\* exception on the first or on the retried GET, a 4xx/5xx status, an unparsable
\* JSON body and a malformed reset header all end in the value None; the decoded
\* body is returned only when no exception occurred and the final response's
\* status is below 400 (raise_for_status lets 2xx and 3xx pass).
C1_NeverRaises ==
    /\ mpc # "raised"
    /\ mpc = "returned" =>
        /\ FinalResponse.kind = "error" => ret = None
        /\ RaisesForStatus(FinalResponse.status) => ret = None
        /\ ~FinalResponse.body.parsable => ret = None
        /\ (IsRateLimited(FirstResponse) /\ ~HeaderParses(FirstResponse)) => ret = None
        /\ exc # "" => ret = None
        /\ ret # None =>
            /\ FinalResponse.kind = "response"
            /\ FinalResponse.status < ErrorFloor
            /\ ret = FinalResponse.body.json

\* C1 witness: the retried GET failed in transport and the call returned None
C1_Witness ==
    /\ mpc = "returned"
    /\ Len(resps) = 2
    /\ FinalResponse.kind = "error"
    /\ exc = "ConnectionError"
    /\ ret = None

\* C1 as stated: never raises, every non-2xx final status gives None, and a body
\* is returned only for a 2xx final status
C1_Original ==
    /\ mpc # "raised"
    /\ mpc = "returned" =>
        /\ FinalResponse.kind = "error" => ret = None
        /\ (FinalResponse.kind = "response" /\ FinalResponse.status \notin 200..299)
              => ret = None
        /\ ret # None => FinalResponse.status \in 200..299

\* C2 (as amended): a call issues at most 2 GETs, all with the call's url and
\* params; a first response that is no rate-limit signal is never retried
\* (exactly 1 GET, no sleep); a rate-limit first response whose reset header is
\* absent or parses as an integer causes exactly one sleep followed by exactly
\* one retry, whose response is final even when it is a rate-limit response
\* again; a rate-limit first response with a malformed reset header causes no
\* sleep and no retry.
C2_OneRetry ==
    /\ NumGets <= 2
    /\ NumSleeps <= 1
    /\ \A i \in 1..Len(events) : events[i].url = url /\ events[i].params = params
    /\ mpc = "returned" =>
        /\ ~IsRateLimited(FirstResponse) => Ops = <<"GET">>
        /\ (IsRateLimited(FirstResponse) /\ HeaderParses(FirstResponse))
              => Ops = <<"GET", "sleep", "GET">> /\ Len(resps) = 2
        /\ (IsRateLimited(FirstResponse) /\ ~HeaderParses(FirstResponse))
              => Ops = <<"GET">> /\ ret = None

\* C2 witness: the retry was answered by a second rate-limit response, which
\* was not waited on
C2_Witness ==
    /\ mpc = "returned"
    /\ Len(resps) = 2
    /\ IsRateLimited(resps[1])
    /\ IsRateLimited(resps[2])
    /\ Ops = <<"GET", "sleep", "GET">>

\* C2 as stated: every rate-limit first response causes one sleep and one retry
C2_Original ==
    /\ NumGets <= 2
    /\ mpc = "returned" =>
        /\ ~IsRateLimited(FirstResponse) => Ops = <<"GET">>
        /\ IsRateLimited(FirstResponse) => Ops = <<"GET", "sleep", "GET">>

\* C3: the duration passed to sleep is max(reset - now, 60), so it is never
\* negative and at least 60 seconds, for a reset timestamp in the past, the
\* present or the future; with the header absent it is exactly 60.
C3_WaitAtLeastMinWait ==
    /\ mpc = "sleep" =>
        /\ wait_time >= MinWait
        /\ wait_time = (IF reset_time - now > MinWait THEN reset_time - now ELSE MinWait)
        /\ ~FirstResponse.header.present => wait_time = MinWait
    /\ \A i \in 1..Len(events) :
          events[i].op = "sleep" =>
              /\ events[i].secs >= MinWait
              /\ events[i].secs = wait_time

\* C3 witness: the reset timestamp lay in the past and the flow slept 60 seconds
C3_Witness ==
    /\ NumSleeps = 1
    /\ reset_time < now
    /\ events[2].secs = MinWait

RECURSIVE ConcatPages(_)
\* the pages a log of (page, n) entries stands for, one after the other
ConcatPages(log) ==
    IF log = <<>> THEN <<>>
    ELSE ConcatPages(SubSeq(log, 1, Len(log) - 1))
            \o PageBody(log[Len(log)].page, log[Len(log)].n)

\* get_repositories was called and has returned
ReposReturned ==
    \/ pc \in {"repos_done", "langs", "langs_wait", "stats", "readme", "crashed"}
    \/ pc = "done" /\ Truthy(user)

\* C4: the loop iterations of get_repositories request pages 1, 2, ..., k in this
\* order, each once; every page before the k-th was a full page, the k-th is
\* short or without data, nothing is requested after it, and the sequence
\* returned is the data of pages 1..k in page order.
C4_PagesInOrder ==
    /\ \A i \in 1..Len(page_log) : page_log[i].page = i
    /\ \A i \in 1..(Len(page_log) - 1) : page_log[i].ok /\ page_log[i].n = PerPage
    /\ (pc = "repos_wait" /\ mpc # "idle") =>
          url = ReposUrl /\ params = ReposParams(Len(page_log) + 1)
    /\ pc = "repos" => \A i \in 1..Len(page_log) : page_log[i].n = PerPage
    /\ ReposReturned =>
          /\ page_log # <<>>
          /\ page_log[Len(page_log)].n < PerPage
          /\ repos = ConcatPages(page_log)

\* C4 witness: two full pages and a short third one were fetched and returned
C4_Witness ==
    /\ pc = "repos_done"
    /\ Len(page_log) = 3
    /\ page_log[3].ok
    /\ page_log[3].n = SampleLimit + 1
    /\ Len(repos) = 2 * PerPage + SampleLimit + 1

\* C5 (as amended): pagination ends at the first request that returns a page
\* shorter than 100 or yields no data (a failed request or an empty page); a
\* request that fails after full pages ends it too, and the full pages
\* accumulated so far are what is returned.
C5_StopsOnShortOrNoData ==
    pc = "repos_done" =>
        LET k    == Len(page_log)
            last == page_log[k]
        IN  /\ k >= 1
            /\ \A i \in 1..(k - 1) : page_log[i].ok /\ page_log[i].n = PerPage
            /\ \/ last.ok /\ last.n < PerPage
               \/ ~last.ok /\ last.n = 0
            /\ Len(repos) = (k - 1) * PerPage + last.n

\* C5 witness: a request failed after a full page, and that page was returned
C5_Witness ==
    /\ pc = "repos_done"
    /\ Len(page_log) = 2
    /\ ~page_log[2].ok
    /\ Len(repos) = PerPage

\* C5 as stated: whenever get_repositories returns, the last response it
\* consumed was a successfully fetched page of length < 100
C5_Original ==
    pc = "repos_done" =>
        /\ page_log[Len(page_log)].ok
        /\ page_log[Len(page_log)].n < PerPage

\* C6 as stated: the run fails only if the user profile or the repository list
\* could not be fetched at all
C6_FailsOnlyWhenFetchFailed ==
    (pc = "done" /\ outcome = "False") =>
        \/ user = None
        \/ page_log # <<>> /\ ~page_log[1].ok

SampledOriginals(rs) ==
    {i \in 1..Len(rs) : i <= SampleLimit /\ ~rs[i].fork}

RECURSIVE LoggedBytes(_, _)
\* the bytes of language k over the logged requests that returned data
LoggedBytes(log, k) ==
    IF log = <<>> THEN 0
    ELSE LoggedBytes(Tail(log), k)
            + (IF Truthy(log[1].data) THEN BytesOf(log[1].data.v, k) ELSE 0)

LoggedKeys(log) ==
    {k \in {"Python", "Go"} :
        \E j \in 1..Len(log) : Truthy(log[j].data) /\ HasKey(log[j].data.v, k)}

\* C7: get_language_stats requests languages only for repositories that are
\* among the first 30 of the input and are not forks, in input order; once the
\* loop is over every such repository was requested exactly once, and every
\* language total is the sum of that language's bytes over the requests that
\* returned data.
C7_SampledOriginalsOnly ==
    /\ Len(lang_log) <= SampleLimit
    /\ \A j \in 1..Len(lang_log) :
          /\ lang_log[j].i \in SampledOriginals(repos)
          /\ lang_log[j].name = repos[lang_log[j].i].name
          /\ \A h \in 1..(j - 1) : lang_log[h].i < lang_log[j].i
    /\ (pc = "langs_wait" /\ mpc # "idle") =>
          idx \in SampledOriginals(repos) /\ url = LanguagesUrl(repos[idx].name)
    /\ pc \in {"stats", "readme", "done"} =>
          /\ {lang_log[j].i : j \in 1..Len(lang_log)} = SampledOriginals(repos)
          /\ {languages[j].k : j \in 1..Len(languages)} = LoggedKeys(lang_log)
          /\ \A j \in 1..Len(languages) :
                languages[j].v = LoggedBytes(lang_log, languages[j].k)
          /\ \A j \in 1..Len(languages), h \in 1..Len(languages) :
                languages[j].k = languages[h].k => j = h

\* C7 witness: more than 30 repositories, a fork inside the prefix, an original
\* right behind it, one request that failed and one that returned data
C7_Witness ==
    /\ pc = "stats"
    /\ Len(repos) > SampleLimit
    /\ ~repos[SampleLimit + 1].fork
    /\ repos[2].fork
    /\ Len(lang_log) = 2
    /\ lang_log[1].data = None
    /\ Truthy(lang_log[2].data)
    /\ languages # <<>>

\* C8: avg_stars_per_repo = total_stars / max(original_repos, 1) for every
\* input, without a division by zero; the empty list gives original_repos = 0,
\* most_starred_repo = "None", most_starred_stars = 0 and an average of 0.
C8_AverageGuarded ==
    /\ pc # "crashed"
    /\ pc = "readme" =>
        /\ stats.ok
        /\ stats.original_repos = Cardinality({i \in 1..Len(repos) : ~repos[i].fork})
        /\ stats.total_stars = SumSeq([i \in 1..Len(repos) |-> repos[i].stargazers_count])
        /\ stats.avg_stars_per_repo.num = stats.total_stars
        /\ stats.avg_stars_per_repo.den =
              (IF stats.original_repos >= 1 THEN stats.original_repos ELSE 1)
        /\ repos = <<>> =>
              /\ stats.original_repos = 0
              /\ stats.most_starred_repo = "None"
              /\ stats.most_starred_stars = 0
              /\ stats.avg_stars_per_repo.num = 0

\* C8 witness: a list of forks only, with stars, was aggregated
C8_Witness ==
    /\ pc = "readme"
    /\ repos # <<>>
    /\ \A i \in 1..Len(repos) : repos[i].fork
    /\ stats.total_stars > 0
    /\ stats.avg_stars_per_repo.den = 1

\* C9: for a non-empty list the most-starred repository is the first one, in
\* input order, with the maximum star count, and the name and the star count
\* reported are those of that one repository; stars 5 and 12 on two original
\* repositories give total 17, most starred 12 and average 8.5.
C9_FirstMaximum ==
    (pc = "readme" /\ repos # <<>>) =>
        /\ \E i \in 1..Len(repos) :
              /\ stats.most_starred_repo = repos[i].name
              /\ stats.most_starred_stars = repos[i].stargazers_count
              /\ \A j \in 1..Len(repos) :
                    repos[j].stargazers_count <= repos[i].stargazers_count
              /\ \A j \in 1..(i - 1) :
                    repos[j].stargazers_count < repos[i].stargazers_count
        /\ (/\ Len(repos) = 2
            /\ repos[1].stargazers_count = 5 /\ ~repos[1].fork
            /\ repos[2].stargazers_count = 12 /\ ~repos[2].fork) =>
              /\ stats.total_stars = 17
              /\ stats.most_starred_stars = 12
              /\ 10 * stats.avg_stars_per_repo.num = 85 * stats.avg_stars_per_repo.den

\* C9 witness: two repositories tie for the maximum and the first one is reported
C9_Witness ==
    /\ pc = "readme"
    /\ Len(repos) >= 3
    /\ repos[2].stargazers_count = 12
    /\ repos[3].stargazers_count = 12
    /\ repos[1].stargazers_count < 12
    /\ stats.most_starred_repo = repos[2].name

TotalBytes == SumSeq([i \in 1..Len(languages) |-> languages[i].v])

\* C10 (as amended): when the total is > 0 there is one percentage per language
\* of the tally, bytes / total * 100, and they sum to 100; when the total is 0
\* (an empty tally, or one whose languages all have 0 bytes) there is no entry
\* at all; the display list is the at most 8 languages with the highest
\* percentages, in descending order.
C10_Percentages ==
    pc = "done" =>
        /\ TotalBytes > 0 =>
              /\ Len(lang_percentages) = Len(languages)
              /\ \A i \in 1..Len(languages) :
                    /\ lang_percentages[i].k = languages[i].k
                    /\ lang_percentages[i].pct.den = TotalBytes
                    /\ lang_percentages[i].pct.num = languages[i].v * 100
              /\ SumSeq([i \in 1..Len(lang_percentages) |-> lang_percentages[i].pct.num])
                    = 100 * TotalBytes
        /\ TotalBytes = 0 => lang_percentages = <<>>
        /\ Len(top_languages) = Min2(Len(lang_percentages), TopCount)
        /\ \A i \in 1..Len(top_languages) :
              /\ \E j \in 1..Len(lang_percentages) : lang_percentages[j] = top_languages[i]
              /\ \A j \in 1..(i - 1) :
                    /\ ~FracLess(top_languages[j].pct, top_languages[i].pct)
                    /\ top_languages[j].k # top_languages[i].k
        /\ \A j \in 1..Len(lang_percentages) :
              (\A i \in 1..Len(top_languages) : top_languages[i].k # lang_percentages[j].k)
                 => ~FracLess(top_languages[Len(top_languages)].pct, lang_percentages[j].pct)

\* C10 witness: a tally of more than 8 languages with bytes was ranked
C10_Witness ==
    /\ pc = "done"
    /\ Len(languages) > TopCount
    /\ TotalBytes > 0
    /\ Len(top_languages) = TopCount
    /\ FracLess(top_languages[TopCount].pct, top_languages[1].pct)

\* C10 as stated: a total of 0 still yields one entry of 0 per language
C10_Original ==
    (pc = "done" /\ TotalBytes = 0) =>
        /\ Len(lang_percentages) = Len(languages)
        /\ \A i \in 1..Len(lang_percentages) : lang_percentages[i].pct.num = 0

====
